---- MODULE Spec2Model ----
(***************************************************************************)
(* Metric evaluation engine of the impact dashboard (src/dashboard.py) and *)
(* the ImpactMetrics tracker (src/src/impact_metrics.py).                  *)
(*                                                                         *)
(* Python values are modelled as records [k, n, d]:                        *)
(*   k = "none"  Python None                                               *)
(*   k = "nan"   float('nan') / numpy.nan                                  *)
(*   k = "num"   the number n/d, d > 0, gcd(n, d) = 1                      *)
(*   k = "err"   the evaluation raised TypeError (None used as a number)   *)
(* Numbers are exact rationals: the inputs of the model are integers and   *)
(* the thresholds 0, 50, 80, 100 are hit exactly by the float arithmetic   *)
(* of the code on them (k/m*100 for small integers k, m).                  *)
(***************************************************************************)
EXTENDS Integers, Sequences, FiniteSets, TLC

VARIABLES
    expectations,   \* the expectations dataset: a sequence of rows
    performance,    \* the performance dataset: a sequence of rows
    evidence,       \* the evidence dataset: its rows and whether it has a Metric column
    loaded,         \* which of main's three dataset variables are not None
    pc,             \* the position of the caller
    call,           \* the engine call in progress: [fn, args]
    ret,            \* what the call returned
    summary,        \* the variables of the summary pass of main
    impact_metrics, \* the ImpactMetrics instance: its fields metrics and history
    add_metric_calls \* the number of add_metric calls made on the instance

vars == <<expectations, performance, evidence, loaded, pc, call, ret, summary,
          impact_metrics, add_metric_calls>>

tracker == <<impact_metrics, add_metric_calls>>

datasets == <<expectations, performance, evidence, loaded>>

-----------------------------------------------------------------------------
(* Bounds of the model *)

\* calculate_progress is applied to the values 0, 10, ..., 10 * MaxVal
MaxVal == 10

\* a dataset holds at most MaxRows rows
MaxRows == 3

\* a metric name is made of at most MaxWords words
MaxWords == 3

\* add_metric is called at most MaxCalls times on an instance
MaxCalls == 3

-----------------------------------------------------------------------------
(* Python values and arithmetic *)

None == [k |-> "none", n |-> 0, d |-> 1]
NaN == [k |-> "nan", n |-> 0, d |-> 1]
Err == [k |-> "err", n |-> 0, d |-> 1]

Abs(x) == IF x < 0 THEN -x ELSE x

RECURSIVE GCD(_, _)
GCD(a, b) == IF b = 0 THEN a ELSE GCD(b, a % b)

\* the number n/d (d # 0) in lowest terms with a positive denominator
Frac(n, d) ==
    LET g == GCD(Abs(n), Abs(d))
        s == IF d < 0 THEN -1 ELSE 1
    IN [k |-> "num", n |-> (s * n) \div g, d |-> (s * d) \div g]

Num(n) == [k |-> "num", n |-> n, d |-> 1]

IsNum(x) == x.k = "num"

\* None (or a value whose evaluation already raised) as an operand raises TypeError
Raises(x) == x.k \in {"none", "err"}

\* x - y
Sub(x, y) ==
    IF Raises(x) \/ Raises(y) THEN Err
    ELSE IF ~IsNum(x) \/ ~IsNum(y) THEN NaN
    ELSE Frac(x.n * y.d - y.n * x.d, x.d * y.d)

\* x + y
Add(x, y) ==
    IF Raises(x) \/ Raises(y) THEN Err
    ELSE IF ~IsNum(x) \/ ~IsNum(y) THEN NaN
    ELSE Frac(x.n * y.d + y.n * x.d, x.d * y.d)

\* x * y
Mul(x, y) ==
    IF Raises(x) \/ Raises(y) THEN Err
    ELSE IF ~IsNum(x) \/ ~IsNum(y) THEN NaN
    ELSE Frac(x.n * y.n, x.d * y.d)

\* x / y, for a divisor the caller has checked to be non-zero
Div(x, y) ==
    IF Raises(x) \/ Raises(y) THEN Err
    ELSE IF ~IsNum(x) \/ ~IsNum(y) THEN NaN
    ELSE Frac(x.n * y.d, x.d * y.n)

\* comparisons of numbers; every comparison with NaN is False
Lt(x, y) == IsNum(x) /\ IsNum(y) /\ x.n * y.d < y.n * x.d
Le(x, y) == IsNum(x) /\ IsNum(y) /\ x.n * y.d <= y.n * x.d
Gt(x, y) == Lt(y, x)
Ge(x, y) == Le(y, x)

\* Python's min(a, b): b if b < a else a
PyMin(a, b) == IF Raises(a) \/ Raises(b) THEN Err ELSE IF Lt(b, a) THEN b ELSE a

\* Python's max(a, b): b if b > a else a
PyMax(a, b) == IF Raises(a) \/ Raises(b) THEN Err ELSE IF Gt(b, a) THEN b ELSE a

\* pandas.isna on a scalar
pd_isna(x) == x.k \in {"none", "nan"}

-----------------------------------------------------------------------------
(* calculate_progress *)

NoStatus == "None"

\* return None, None, None
UnableToCompute ==
    [exc |-> "none", progress |-> None, status |-> NoStatus, color |-> NoStatus]

\* the call raised instead of returning
RaisedTypeError ==
    [exc |-> "TypeError", progress |-> None, status |-> NoStatus, color |-> NoStatus]

\* mutant: the guard forgets the target
MissingExpectation_BaselineOnly(baseline, target) == pd_isna(baseline)

\* the guard on the expectation row's values
MissingExpectation(baseline, target) == pd_isna(baseline) \/ pd_isna(target)

\* mutant: the upper clamp is dropped
Clamp_NoUpper(x) == PyMax(Num(0), x)

\* max(0, min(100, x))
Clamp(x) == PyMax(Num(0), PyMin(Num(100), x))

\* mutant: the thresholds are exclusive
ClassifyStatus_Exclusive(progress) ==
    IF Raises(progress) THEN RaisedTypeError
    ELSE IF Gt(progress, Num(80))
        THEN [exc |-> "none", progress |-> progress, status |-> "On Track", color |-> "green"]
    ELSE IF Gt(progress, Num(50))
        THEN [exc |-> "none", progress |-> progress, status |-> "At Risk", color |-> "orange"]
    ELSE [exc |-> "none", progress |-> progress, status |-> "Off Track", color |-> "red"]

\* status and colour of a computed progress
ClassifyStatus(progress) ==
    IF Raises(progress) THEN RaisedTypeError
    ELSE IF Ge(progress, Num(80))
        THEN [exc |-> "none", progress |-> progress, status |-> "On Track", color |-> "green"]
    ELSE IF Ge(progress, Num(50))
        THEN [exc |-> "none", progress |-> progress, status |-> "At Risk", color |-> "orange"]
    ELSE [exc |-> "none", progress |-> progress, status |-> "Off Track", color |-> "red"]

\* mutant: the lower-is-better branch measures the distance as the standard branch does
LowerIsBetterBranch_NotInverted(baseline, actual, target) ==
    IF Raises(actual) THEN RaisedTypeError
    ELSE IF Le(actual, target) THEN ClassifyStatus(Num(100))
    ELSE LET denominator == Sub(baseline, target)
         IN IF denominator = Num(0) THEN UnableToCompute
            ELSE ClassifyStatus(
                     Clamp(Mul(Div(Sub(actual, baseline), denominator), Num(100))))

\* the branch for metrics where lower is better
LowerIsBetterBranch(baseline, actual, target) ==
    IF Raises(actual) THEN RaisedTypeError
    ELSE IF Le(actual, target) THEN ClassifyStatus(Num(100))
    ELSE LET denominator == Sub(baseline, target)
         IN IF denominator = Num(0) THEN UnableToCompute
            ELSE ClassifyStatus(
                     Clamp(Mul(Div(Sub(baseline, actual), denominator), Num(100))))

\* mutant: the progress is not clamped to 0..100
HigherIsBetterBranch_NoClamp(baseline, actual, target) ==
    LET denominator == Sub(target, baseline)
    IN IF denominator = Num(0) THEN UnableToCompute
       ELSE ClassifyStatus(Mul(Div(Sub(actual, baseline), denominator), Num(100)))

\* mutant: the denominator is taken the wrong way round
HigherIsBetterBranch_SwappedDenominator(baseline, actual, target) ==
    LET denominator == Sub(baseline, target)
    IN IF denominator = Num(0) THEN UnableToCompute
       ELSE ClassifyStatus(
                Clamp(Mul(Div(Sub(actual, baseline), denominator), Num(100))))

\* the standard branch
HigherIsBetterBranch(baseline, actual, target) ==
    LET denominator == Sub(target, baseline)
    IN IF denominator = Num(0) THEN UnableToCompute
       ELSE ClassifyStatus(
                Clamp(Mul(Div(Sub(actual, baseline), denominator), Num(100))))

calculate_progress(baseline, actual, target, lower_is_better) ==
    IF MissingExpectation(baseline, target) THEN UnableToCompute
    ELSE IF lower_is_better THEN LowerIsBetterBranch(baseline, actual, target)
    ELSE HigherIsBetterBranch(baseline, actual, target)

-----------------------------------------------------------------------------
(* Metric names.  A Python str is modelled as the sequence of its characters,
   each a one-character string, so that lower() and the substring test are
   computed character by character. *)

UpperLetters == <<"A", "B", "C", "D", "E", "F", "G", "H", "I", "J", "K", "L", "M", "N", "O", "P", "Q", "R", "S", "T", "U", "V", "W", "X", "Y", "Z">>
LowerLetters == <<"a", "b", "c", "d", "e", "f", "g", "h", "i", "j", "k", "l", "m", "n", "o", "p", "q", "r", "s", "t", "u", "v", "w", "x", "y", "z">>

\* str.lower() on one character
LowerChar(c) ==
    IF \E i \in 1..Len(UpperLetters) : UpperLetters[i] = c
        THEN LowerLetters[CHOOSE i \in 1..Len(UpperLetters) : UpperLetters[i] = c]
    ELSE c

\* s.lower()
str_lower(s) == [i \in 1..Len(s) |-> LowerChar(s[i])]

\* keyword in s
Contains(s, keyword) ==
    \E i \in 0..(Len(s) - Len(keyword)) : SubSeq(s, i + 1, i + Len(keyword)) = keyword

\* any(keyword in s for keyword in keywords)
ContainsAny(s, keywords) == \E keyword \in keywords : Contains(s, keyword)

lower_is_better_keywords ==
    {<<"g", "a", "p">>,
     <<"c", "o", "s", "t">>,
     <<"r", "a", "t", "i", "o">>,
     <<"d", "e", "b", "t">>,
     <<"t", "i", "m", "e", " ", "t", "o">>,
     <<"w", "a", "i", "t">>}

\* mutant: the name is not lower-cased
is_lower_better_metric_CaseSensitive(metric_name) ==
    ContainsAny(metric_name, lower_is_better_keywords)

is_lower_better_metric(metric_name) ==
    LET metric_lower == str_lower(metric_name)
    IN ContainsAny(metric_lower, lower_is_better_keywords)

-----------------------------------------------------------------------------
(* format_value: the string is modelled by its parts, the number by its value
   rounded (half to even) to the decimals of the format *)

currency_keywords ==
    {<<"c", "o", "s", "t">>,
     <<"s", "a", "l", "a", "r", "y">>,
     <<"p", "r", "i", "c", "e">>,
     <<"r", "e", "v", "e", "n", "u", "e">>,
     <<"b", "u", "d", "g", "e", "t">>}

percentage_keywords == {<<"r", "a", "t", "e">>, <<"p", "e", "r", "c", "e", "n", "t">>, <<"%">>}

score_keyword == <<"s", "c", "o", "r", "e">>

RECURSIVE Pow10(_)
Pow10(k) == IF k = 0 THEN 1 ELSE 10 * Pow10(k - 1)

\* the number x rounded to the given decimals, as the format specs .0f and .1f do
RoundHalfEven(x, decimals) ==
    LET scale == Pow10(decimals)
        num == x.n * scale
        q == num \div x.d
        twice == 2 * (num - q * x.d)
        up == twice > x.d \/ (twice = x.d /\ q % 2 = 1)
    IN Frac(IF up THEN q + 1 ELSE q, scale)

\* "N/A"
FormatNA ==
    [text |-> "N/A", prefix |-> "", number |-> None, decimals |-> 0,
     grouping |-> FALSE, suffix |-> ""]

\* f"{prefix}{value:[,].{decimals}f}{suffix}"
FormatNumber(prefix, value, decimals, grouping, suffix) ==
    [text |-> "", prefix |-> prefix, number |-> RoundHalfEven(value, decimals),
     decimals |-> decimals, grouping |-> grouping, suffix |-> suffix]

\* mutant: the percentage test comes before the currency test
format_value_PercentFirst(value, metric_name) ==
    IF pd_isna(value) THEN FormatNA
    ELSE LET metric_lower == str_lower(metric_name)
         IN IF ContainsAny(metric_lower, percentage_keywords)
                THEN FormatNumber("", value, 1, FALSE, "%")
            ELSE IF ContainsAny(metric_lower, currency_keywords)
                THEN FormatNumber("$", value, 0, TRUE, "")
            ELSE IF Contains(metric_lower, score_keyword)
                THEN FormatNumber("", value, 1, FALSE, "")
            ELSE FormatNumber("", value, 0, TRUE, "")

format_value(value, metric_name) ==
    IF pd_isna(value) THEN FormatNA
    ELSE LET metric_lower == str_lower(metric_name)
         IN IF ContainsAny(metric_lower, currency_keywords)
                THEN FormatNumber("$", value, 0, TRUE, "")
            ELSE IF ContainsAny(metric_lower, percentage_keywords)
                THEN FormatNumber("", value, 1, FALSE, "%")
            ELSE IF Contains(metric_lower, score_keyword)
                THEN FormatNumber("", value, 1, FALSE, "")
            ELSE FormatNumber("", value, 0, TRUE, "")

-----------------------------------------------------------------------------
(* Values of the variables that a specification does not use *)

NoExpectations == <<>>
NoEvidence == [has_metric |-> FALSE, rows |-> <<>>]
AllLoaded == [expectations |-> TRUE, performance |-> TRUE, evidence |-> TRUE]
NoSummary == [i |-> 0]
NoImpactMetrics == [metrics |-> <<>>, history |-> <<>>]

-----------------------------------------------------------------------------
(* The performance dataset: a sequence of observations (rows), in file order *)

Initiatives == {"I1", "I2"}
Metrics == {"Completion Rate", "Equity Gap"}

\* the horizon of the projection: range(int(latest_year) + 1, 2031)
HorizonYear == 2030

Years == (HorizonYear - 2)..HorizonYear
ActualValues == {Num(10), Num(20)}

Observations ==
    [initiative_id : Initiatives, metric : Metrics, year : Years,
     actual_value : ActualValues]

Datasets == UNION {[1..n -> Observations] : n \in 0..MaxRows}

\* the index of the rows that pass the filter on both key columns
Matching(df, initiative_id, metric) ==
    {i \in DOMAIN df : df[i].initiative_id = initiative_id /\ df[i].metric = metric}

\* sort_values('Year', ascending=...) on the rows idx of df: the orders of idx
\* it can produce; rows of the same year come out in an unspecified order
\* (the default sort is not stable)
SortValuesByYear(df, idx, ascending) ==
    LET n == Cardinality(idx)
    IN {o \in [1..n -> idx] :
           /\ \A j, k \in 1..n : j # k => o[j] # o[k]
           /\ \A j, k \in 1..n :
                  j < k => IF ascending THEN df[o[j]].year <= df[o[k]].year
                           ELSE df[o[j]].year >= df[o[k]].year}

-----------------------------------------------------------------------------
(* get_latest_performance: the set of values the call can return, <<>> for
   None and <<row>> for a row *)

\* mutant: the rows are sorted by year ascending
get_latest_performance_Ascending(performance_df, initiative_id, metric) ==
    LET filtered == Matching(performance_df, initiative_id, metric)
    IN IF filtered = {} THEN {<<>>}
       ELSE {<<performance_df[o[1]]>> : o \in SortValuesByYear(performance_df, filtered, TRUE)}

get_latest_performance(performance_df, initiative_id, metric) ==
    LET filtered == Matching(performance_df, initiative_id, metric)
    IN IF filtered = {} THEN {<<>>}
       ELSE {<<performance_df[o[1]]>> : o \in SortValuesByYear(performance_df, filtered, FALSE)}

-----------------------------------------------------------------------------
(* create_trend_chart: the figure is modelled by its traces *)

\* filtered[filtered['Year'] == year]['Actual Value'].iloc[0] on the sorted rows
FirstValueOfYear(series, year) ==
    series[CHOOSE j \in 1..Len(series) :
               /\ series[j].year = year
               /\ \A k \in 1..(j - 1) : series[k].year # year].actual_value

\* list(range(lo, hi + 1))
YearRange(lo, hi) == [j \in 1..(IF hi >= lo THEN hi - lo + 1 ELSE 0) |-> lo + j - 1]

\* mutant: the projection is not prefixed with the latest observation
Projection_NoAnchor(series, target_2030) ==
    IF pd_isna(target_2030) \/ Len(series) < 2 THEN <<>>
    ELSE LET latest_year == CHOOSE y \in {series[j].year : j \in 1..Len(series)} :
                                \A j \in 1..Len(series) : series[j].year <= y
             latest_value == FirstValueOfYear(series, latest_year)
             prev_year == series[Len(series) - 1].year
             prev_value == FirstValueOfYear(series, prev_year)
         IN IF latest_year = prev_year THEN <<>>
            ELSE LET slope == Div(Sub(latest_value, prev_value),
                                  Num(latest_year - prev_year))
                     projection_years == YearRange(latest_year + 1, HorizonYear)
                 IN [j \in 1..Len(projection_years) |->
                        <<projection_years[j],
                          Add(latest_value,
                              Mul(slope, Num(projection_years[j] - latest_year)))>>]

\* mutant: the trace is added also when no year is left to project
Projection_AnchorAlone(series, target_2030) ==
    IF pd_isna(target_2030) \/ Len(series) < 2 THEN <<>>
    ELSE LET latest_year == CHOOSE y \in {series[j].year : j \in 1..Len(series)} :
                                \A j \in 1..Len(series) : series[j].year <= y
             latest_value == FirstValueOfYear(series, latest_year)
             prev_year == series[Len(series) - 1].year
             prev_value == FirstValueOfYear(series, prev_year)
         IN IF latest_year = prev_year THEN <<>>
            ELSE LET slope == Div(Sub(latest_value, prev_value),
                                  Num(latest_year - prev_year))
                     projection_years == YearRange(latest_year + 1, HorizonYear)
                 IN <<<<latest_year, latest_value>>>> \o
                    [j \in 1..Len(projection_years) |->
                        <<projection_years[j],
                          Add(latest_value,
                              Mul(slope, Num(projection_years[j] - latest_year)))>>]

\* the projection trace added for the sorted rows series, <<>> when none is added
Projection(series, target_2030) ==
    IF pd_isna(target_2030) \/ Len(series) < 2 THEN <<>>
    ELSE LET latest_year == CHOOSE y \in {series[j].year : j \in 1..Len(series)} :
                                \A j \in 1..Len(series) : series[j].year <= y
             latest_value == FirstValueOfYear(series, latest_year)
             prev_year == series[Len(series) - 1].year
             prev_value == FirstValueOfYear(series, prev_year)
         IN IF latest_year = prev_year THEN <<>>
            ELSE LET slope == Div(Sub(latest_value, prev_value),
                                  Num(latest_year - prev_year))
                     projection_years == YearRange(latest_year + 1, HorizonYear)
                 IN IF projection_years = <<>> THEN <<>>
                    ELSE <<<<latest_year, latest_value>>>> \o
                         [j \in 1..Len(projection_years) |->
                             <<projection_years[j],
                               Add(latest_value,
                                   Mul(slope, Num(projection_years[j] - latest_year)))>>]

\* the figure built from the sorted rows: the actual trace, the two
\* horizontal lines (<<>> when not drawn) and the projection trace
Figure(series, baseline, target_2030) ==
    [actual |-> [j \in 1..Len(series) |-> <<series[j].year, series[j].actual_value>>],
     baseline_line |-> IF ~pd_isna(baseline) THEN <<baseline>> ELSE <<>>,
     target_line |-> IF ~pd_isna(target_2030) THEN <<target_2030>> ELSE <<>>,
     projection |-> Projection(series, target_2030)]

\* mutant: the projection block hangs under the baseline test
create_trend_chart_UnderBaseline(performance_df, initiative_id, metric, baseline, target_2030, lower_is_better) ==
    LET idx == Matching(performance_df, initiative_id, metric)
    IN IF idx = {} THEN {<<>>}
       ELSE {<<[Figure([j \in 1..Cardinality(idx) |-> performance_df[o[j]]],
                       baseline, target_2030)
                EXCEPT !.projection =
                    Projection([j \in 1..Cardinality(idx) |-> performance_df[o[j]]],
                               baseline)]>> :
                o \in SortValuesByYear(performance_df, idx, TRUE)}

\* the set of values the call can return: <<>> for None, <<figure>> otherwise
create_trend_chart(performance_df, initiative_id, metric, baseline, target_2030, lower_is_better) ==
    LET idx == Matching(performance_df, initiative_id, metric)
    IN IF idx = {} THEN {<<>>}
       ELSE {<<Figure([j \in 1..Cardinality(idx) |-> performance_df[o[j]]],
                      baseline, target_2030)>> :
                o \in SortValuesByYear(performance_df, idx, TRUE)}

-----------------------------------------------------------------------------
(* get_evidence_grade *)

\* the argument metric=None
NoMetric == "None"

\* return None, None, None
NoGrade == [grade |-> NoStatus, filtered |-> <<>>, avg_confidence |-> None]

\* mutant: the metric argument is never used
EvidenceFilter_InitiativeOnly(evidence_df, initiative_id, metric) ==
    LET OfInitiative(r) == r.initiative_id = initiative_id
    IN SelectSeq(evidence_df.rows, OfInitiative)

\* the rows left by the two filters, in dataset order
EvidenceFilter(evidence_df, initiative_id, metric) ==
    LET OfInitiative(r) == r.initiative_id = initiative_id
        OfMetric(r) == r.metric = metric
        filtered == SelectSeq(evidence_df.rows, OfInitiative)
    IN IF evidence_df.has_metric /\ metric # NoMetric
           THEN SelectSeq(filtered, OfMetric)
       ELSE filtered

RECURSIVE SumConfidence(_)
SumConfidence(rows) ==
    IF rows = <<>> THEN Num(0)
    ELSE Add(Head(rows).confidence_score, SumConfidence(Tail(rows)))

\* filtered['Confidence Score'].mean() on a non-empty frame of numbers
MeanConfidence(rows) == Div(SumConfidence(rows), Num(Len(rows)))

\* mutant: the grade thresholds are exclusive
GradeOf_Exclusive(avg_confidence) ==
    IF Gt(avg_confidence, Frac(5, 2)) THEN "A"
    ELSE IF Gt(avg_confidence, Num(2)) THEN "B"
    ELSE IF Gt(avg_confidence, Frac(3, 2)) THEN "C"
    ELSE "D"

\* the letter of an average confidence
GradeOf(avg_confidence) ==
    IF Ge(avg_confidence, Frac(5, 2)) THEN "A"
    ELSE IF Ge(avg_confidence, Num(2)) THEN "B"
    ELSE IF Ge(avg_confidence, Frac(3, 2)) THEN "C"
    ELSE "D"

get_evidence_grade(evidence_df, initiative_id, metric) ==
    LET filtered == EvidenceFilter(evidence_df, initiative_id, metric)
    IN IF filtered = <<>> THEN NoGrade
       ELSE LET avg_confidence == MeanConfidence(filtered)
            IN [grade |-> GradeOf(avg_confidence), filtered |-> filtered,
                avg_confidence |-> avg_confidence]

-----------------------------------------------------------------------------
(* main: the initiative filter, the detailed view and the summary statistics.
   A row of the expectations dataset is [initiative_id, metric, baseline,
   target_2030]. *)

\* the characters of the metric names of the datasets
MetricSpelling(metric) ==
    CASE metric = "Completion Rate" ->
             <<"C", "o", "m", "p", "l", "e", "t", "i", "o", "n", " ", "R", "a", "t", "e">>
      [] metric = "Equity Gap" ->
             <<"E", "q", "u", "i", "t", "y", " ", "G", "a", "p">>

\* the choice "All" of the initiative select box
AllInitiatives == "All"

\* filtered_expectations
FilterExpectations(expectations_df, selected_initiative) ==
    LET OfInitiative(r) == r.initiative_id = selected_initiative
    IN IF selected_initiative # AllInitiatives
           THEN SelectSeq(expectations_df, OfInitiative)
       ELSE expectations_df

\* filtered_expectations['Metric'].unique(): the options of the metric select box
UniqueMetrics(filtered_expectations) ==
    {filtered_expectations[i].metric : i \in DOMAIN filtered_expectations}

\* filtered_expectations[filtered_expectations['Metric'] == selected_metric].iloc[0]
MetricRow(filtered_expectations, selected_metric) ==
    LET OfMetric(r) == r.metric = selected_metric
    IN Head(SelectSeq(filtered_expectations, OfMetric))

\* the detailed view of a metric: the set of what it can show
detailed_view(filtered_expectations, performance_df, evidence_df, selected_metric) ==
    LET metric_row == MetricRow(filtered_expectations, selected_metric)
        initiative_id == metric_row.initiative_id
        baseline == metric_row.baseline
        target_2030 == metric_row.target_2030
        lower_is_better == is_lower_better_metric(MetricSpelling(selected_metric))
    IN {[metric_row |-> metric_row,
         lower_is_better |-> lower_is_better,
         chart |-> chart,
         evidence |-> get_evidence_grade(evidence_df, initiative_id, selected_metric)] :
            chart \in create_trend_chart(performance_df, initiative_id, selected_metric,
                                         baseline, target_2030, lower_is_better)}

\* the counters before the loop
SummaryCounters(filtered_expectations) ==
    [total_metrics |-> Len(filtered_expectations),
     metrics_with_data |-> 0,
     on_track_count |-> 0,
     at_risk_count |-> 0,
     off_track_count |-> 0,
     exc |-> "none"]

\* mutant: the status is counted without the test of the progress
SummaryRow_NoProgressTest(counts, row, latest_perf) ==
    IF latest_perf = <<>> THEN counts
    ELSE LET actual == latest_perf[1].actual_value
             lower_is_better == is_lower_better_metric(MetricSpelling(row.metric))
             r == calculate_progress(row.baseline, actual, row.target_2030, lower_is_better)
             with_data == [counts EXCEPT !.metrics_with_data = @ + 1]
         IN IF r.exc # "none" THEN [with_data EXCEPT !.exc = r.exc]
            ELSE IF r.status = "On Track"
                THEN [with_data EXCEPT !.on_track_count = @ + 1]
            ELSE IF r.status = "At Risk"
                THEN [with_data EXCEPT !.at_risk_count = @ + 1]
            ELSE [with_data EXCEPT !.off_track_count = @ + 1]

\* the body of the loop on one row, latest_perf being <<>> for None
SummaryRow(counts, row, latest_perf) ==
    IF latest_perf = <<>> THEN counts
    ELSE LET actual == latest_perf[1].actual_value
             lower_is_better == is_lower_better_metric(MetricSpelling(row.metric))
             r == calculate_progress(row.baseline, actual, row.target_2030, lower_is_better)
             with_data == [counts EXCEPT !.metrics_with_data = @ + 1]
         IN IF r.exc # "none" THEN [with_data EXCEPT !.exc = r.exc]
            ELSE IF r.progress # None
                THEN IF r.status = "On Track"
                         THEN [with_data EXCEPT !.on_track_count = @ + 1]
                     ELSE IF r.status = "At Risk"
                         THEN [with_data EXCEPT !.at_risk_count = @ + 1]
                     ELSE [with_data EXCEPT !.off_track_count = @ + 1]
            ELSE with_data

\* the loop from row i on: the set of counters it can end with (the loop
\* ends early when calculate_progress raises)
RECURSIVE SummaryLoop(_, _, _, _)
SummaryLoop(filtered_expectations, performance_df, i, counts) ==
    IF i > Len(filtered_expectations) \/ counts.exc # "none" THEN {counts}
    ELSE LET row == filtered_expectations[i]
         IN UNION {SummaryLoop(filtered_expectations, performance_df, i + 1,
                               SummaryRow(counts, row, latest_perf)) :
                       latest_perf \in get_latest_performance(
                                           performance_df, row.initiative_id, row.metric)}

\* the summary statistics of the filtered expectations
summary_statistics(filtered_expectations, performance_df) ==
    SummaryLoop(filtered_expectations, performance_df, 1,
                SummaryCounters(filtered_expectations))

-----------------------------------------------------------------------------
(* load_data and the start of main.  A file is [state, content]: state is
   "missing" (not uploaded, or not on disk), "unreadable" (pd.read_csv
   raises) or "ok", content is the dataset read from it. *)

\* loaded when the three variables of main are None
NoneLoaded == [expectations |-> FALSE, performance |-> FALSE, evidence |-> FALSE]

\* pd.read_csv(file) returns
Readable(file) == file.state = "ok"

\* mutant: every file is read under a try of its own
load_data_Partial(expectations_file, performance_file, evidence_file) ==
    [loaded |-> [expectations |-> Readable(expectations_file),
                 performance |-> Readable(performance_file),
                 evidence |-> Readable(evidence_file)],
     expectations |-> IF Readable(expectations_file) THEN expectations_file.content
                      ELSE NoExpectations,
     performance |-> IF Readable(performance_file) THEN performance_file.content
                     ELSE <<>>,
     evidence |-> IF Readable(evidence_file) THEN evidence_file.content
                  ELSE NoEvidence]

\* the three values returned: loaded tells which are not None
load_data(expectations_file, performance_file, evidence_file) ==
    IF Readable(expectations_file) /\ Readable(performance_file) /\ Readable(evidence_file)
        THEN [loaded |-> AllLoaded,
              expectations |-> expectations_file.content,
              performance |-> performance_file.content,
              evidence |-> evidence_file.content]
    ELSE [loaded |-> NoneLoaded,
          expectations |-> NoExpectations,
          performance |-> <<>>,
          evidence |-> NoEvidence]

\* expectations_file and performance_file and evidence_file of the upload
\* mode, the three os.path.exists of the sample mode
AllPresent(files) ==
    /\ files.expectations.state # "missing"
    /\ files.performance.state # "missing"
    /\ files.evidence.state # "missing"

\* expectations is None or performance is None or evidence is None
AnyNone(flags) == ~flags.expectations \/ ~flags.performance \/ ~flags.evidence

-----------------------------------------------------------------------------
(* Specification of the progress calculator: one call on any inputs *)

ProgressInputs == {Num(10 * i) : i \in 0..MaxVal} \cup {None, NaN}

\* the caller passes (baseline, actual, target, lower_is_better)
InitProgress ==
    /\ expectations = NoExpectations
    /\ performance = <<>>
    /\ evidence = NoEvidence
    /\ loaded = AllLoaded
    /\ summary = NoSummary
    /\ impact_metrics = NoImpactMetrics
    /\ add_metric_calls = 0
    /\ pc = "call"
    /\ call \in [fn : {"calculate_progress"},
                 args : ProgressInputs \X ProgressInputs \X ProgressInputs \X BOOLEAN]
    /\ ret = UnableToCompute

CalculateProgress ==
    /\ pc = "call"
    /\ call.fn = "calculate_progress"
    /\ ret' = calculate_progress(call.args[1], call.args[2], call.args[3], call.args[4])
    /\ pc' = "done"
    /\ UNCHANGED <<datasets, call, summary, tracker>>

NextProgress == CalculateProgress

SpecProgress == InitProgress /\ [][NextProgress]_vars

-----------------------------------------------------------------------------
(* Properties of calculate_progress, checked under SpecProgress *)

ProgressReturned == pc = "done" /\ call.fn = "calculate_progress"
ArgBaseline == call.args[1]
ArgActual == call.args[2]
ArgTarget == call.args[3]
ArgLowerIsBetter == call.args[4]
AllNumbers == IsNum(ArgBaseline) /\ IsNum(ArgActual) /\ IsNum(ArgTarget)

\* p is clamp(0, 100, 100 * x / d) for integers x and d # 0, stated without division
IsClampedPercent(p, x, d) ==
    LET sx == IF d < 0 THEN -x ELSE x
        sd == Abs(d)
    IN IF sx <= 0 THEN p = Num(0)
       ELSE IF sx >= sd THEN p = Num(100)
       ELSE IsNum(p) /\ p.n * sd = 100 * sx * p.d

\* C1: whenever baseline or target is null (None or NaN) the result is
\* (None, None, None), for every actual value and both polarities.
C1_NullExpectationUnable ==
    (ProgressReturned /\ (ArgBaseline.k \in {"none", "nan"} \/ ArgTarget.k \in {"none", "nan"}))
        => ret = UnableToCompute

C1_Witness ==
    /\ ProgressReturned
    /\ IsNum(ArgBaseline) /\ IsNum(ArgActual) /\ ArgTarget = None
    /\ ret = UnableToCompute

\* C2 (as claimed): whenever target equals baseline the result is
\* (None, None, None), for every actual value and both polarities; stated
\* here for the numeric actual values alone.
C2_ZeroRangeUnable ==
    (ProgressReturned /\ AllNumbers /\ ArgTarget = ArgBaseline)
        => ret = UnableToCompute

\* C3: higher-is-better with numeric inputs and target # baseline gives
\* progress = clamp(0, 100, (actual - baseline) / (target - baseline) * 100);
\* (0, 80, 100) gives 80, (0, 60, 100) gives 60, (0, 30, 100) gives 30.
C3_HigherIsBetterFormula ==
    (ProgressReturned /\ ~ArgLowerIsBetter /\ AllNumbers /\ ArgTarget # ArgBaseline)
        => /\ ret.exc = "none"
           /\ IsClampedPercent(ret.progress, ArgActual.n - ArgBaseline.n,
                               ArgTarget.n - ArgBaseline.n)
           /\ (ArgBaseline = Num(0) /\ ArgTarget = Num(100) /\ ArgActual.n \in {30, 60, 80})
                  => ret.progress = ArgActual

C3_Witness ==
    /\ ProgressReturned /\ ~ArgLowerIsBetter
    /\ ArgBaseline = Num(0) /\ ArgActual = Num(80) /\ ArgTarget = Num(100)
    /\ ret.progress = Num(80)

\* C4: lower-is-better with numeric inputs: actual <= target gives 100;
\* otherwise, if baseline # target, progress =
\* clamp(0, 100, (baseline - actual) / (baseline - target) * 100); with
\* baseline > target and actual = baseline the progress is 0 and Off Track.
C4_LowerIsBetterFormula ==
    (ProgressReturned /\ ArgLowerIsBetter /\ AllNumbers)
        => /\ ArgActual.n <= ArgTarget.n
                  => (ret.exc = "none" /\ ret.progress = Num(100))
           /\ (ArgActual.n > ArgTarget.n /\ ArgBaseline # ArgTarget)
                  => /\ ret.exc = "none"
                     /\ IsClampedPercent(ret.progress, ArgBaseline.n - ArgActual.n,
                                         ArgBaseline.n - ArgTarget.n)
           /\ (ArgBaseline.n > ArgTarget.n /\ ArgActual = ArgBaseline)
                  => (ret.progress = Num(0) /\ ret.status = "Off Track")

C4_Witness ==
    /\ ProgressReturned /\ ArgLowerIsBetter
    /\ ArgBaseline = Num(100) /\ ArgActual = Num(100) /\ ArgTarget = Num(20)
    /\ ret.progress = Num(0) /\ ret.status = "Off Track"

\* C5: a returned progress is None or a number in 0..100, and the status is
\* None exactly when the progress is None (otherwise one of the three statuses).
C5_ProgressRange ==
    (ProgressReturned /\ ret.exc = "none")
        => /\ \/ ret.progress = None
              \/ /\ IsNum(ret.progress)
                 /\ 0 <= ret.progress.n
                 /\ ret.progress.n <= 100 * ret.progress.d
           /\ ret.status = NoStatus <=> ret.progress = None
           /\ ret.status \in {NoStatus, "On Track", "At Risk", "Off Track"}

\* the raw ratio is 200 %: the clamp acts
C5_Witness ==
    /\ ProgressReturned /\ ~ArgLowerIsBetter
    /\ ArgBaseline = Num(0) /\ ArgActual = Num(100) /\ ArgTarget = Num(50)
    /\ ret.progress = Num(100) /\ ret.status = "On Track"

\* C6: the status is a function of the progress alone, with inclusive lower
\* bounds: >= 80 On Track, >= 50 At Risk, else Off Track.
C6_StatusThresholds ==
    (ProgressReturned /\ ret.exc = "none" /\ ret.progress # None)
        => ret.status = IF ret.progress.n >= 80 * ret.progress.d THEN "On Track"
                        ELSE IF ret.progress.n >= 50 * ret.progress.d THEN "At Risk"
                        ELSE "Off Track"

C6_Witness ==
    /\ ProgressReturned
    /\ ret.progress = Num(80)
    /\ ret.status = "On Track"

\* C7: for numbers baseline # target and actual = target the progress is
\* exactly 100 and the status On Track, for both polarities.
C7_ActualAtTarget ==
    (ProgressReturned /\ AllNumbers /\ ArgBaseline # ArgTarget /\ ArgActual = ArgTarget)
        => (ret.exc = "none" /\ ret.progress = Num(100) /\ ret.status = "On Track")

\* a target below the baseline, standard polarity
C7_Witness ==
    /\ ProgressReturned /\ ~ArgLowerIsBetter
    /\ AllNumbers /\ ArgTarget.n < ArgBaseline.n /\ ArgActual = ArgTarget
    /\ ret.progress = Num(100)

\* C8 (as claimed): the call never raises, and a missing actual value with
\* baseline and target present gives (None, None, None) rather than a
\* progress and a status; stated here for the NaN that pandas yields for a
\* missing cell.
C8_MissingActualUnable ==
    (pc = "done" /\ call.fn = "calculate_progress"
        /\ IsNum(ArgBaseline) /\ IsNum(ArgTarget) /\ ArgActual = NaN)
        => ret = UnableToCompute

-----------------------------------------------------------------------------
(* Specification of the series functions: one call of get_latest_performance
   or create_trend_chart on any loaded performance dataset.  The functions
   treat every key alike, so the calls ask for one key, and the dataset
   holds rows of that key and of keys that differ in either column. *)

ChartBaselines == {NaN, Num(10)}
ChartTargets == {None, NaN, Num(20)}

SeriesCalls ==
    [fn : {"get_latest_performance"}, args : {"I1"} \X {"Equity Gap"}]
    \cup
    [fn : {"create_trend_chart"},
     args : {"I1"} \X {"Equity Gap"} \X ChartBaselines \X ChartTargets \X BOOLEAN]

InitSeries ==
    /\ expectations = NoExpectations
    /\ performance \in Datasets
    /\ evidence = NoEvidence
    /\ loaded = AllLoaded
    /\ summary = NoSummary
    /\ impact_metrics = NoImpactMetrics
    /\ add_metric_calls = 0
    /\ pc = "call"
    /\ call \in SeriesCalls
    /\ ret = <<>>

GetLatestPerformance ==
    /\ pc = "call"
    /\ call.fn = "get_latest_performance"
    /\ ret' \in get_latest_performance(performance, call.args[1], call.args[2])
    /\ pc' = "done"
    /\ UNCHANGED <<datasets, call, summary, tracker>>

CreateTrendChart ==
    /\ pc = "call"
    /\ call.fn = "create_trend_chart"
    /\ ret' \in create_trend_chart(performance, call.args[1], call.args[2],
                                   call.args[3], call.args[4], call.args[5])
    /\ pc' = "done"
    /\ UNCHANGED <<datasets, call, summary, tracker>>

NextSeries == GetLatestPerformance \/ CreateTrendChart

SpecSeries == InitSeries /\ [][NextSeries]_vars

-----------------------------------------------------------------------------
(* Properties of the series functions, checked under SpecSeries *)

\* the rows of the dataset with both keys equal to the call's
KeyRows == {i \in DOMAIN performance :
               /\ performance[i].initiative_id = call.args[1]
               /\ performance[i].metric = call.args[2]}

\* C9: get_latest_performance returns None when no row has both keys equal
\* to the arguments; otherwise a row with both keys equal whose year is >=
\* the year of every such row, wherever the rows stand in the dataset.
C9_LatestIsMaxYear ==
    (pc = "done" /\ call.fn = "get_latest_performance")
        => /\ KeyRows = {} => ret = <<>>
           /\ KeyRows # {} =>
                  /\ ret # <<>>
                  /\ \E i \in KeyRows : ret[1] = performance[i]
                  /\ \A j \in KeyRows : performance[j].year <= ret[1].year

\* three rows of the key with the latest year in the middle of the dataset
C9_Witness ==
    /\ pc = "done" /\ call.fn = "get_latest_performance"
    /\ Len(performance) = 3 /\ KeyRows = {1, 2, 3}
    /\ performance[1].year < performance[3].year
    /\ performance[3].year < performance[2].year
    /\ ret = <<performance[2]>>

\* exactly one row of the key has the greatest year of the key
LatestYearIsAlone ==
    Cardinality({i \in KeyRows : \A j \in KeyRows :
                                    performance[j].year <= performance[i].year}) = 1

\* C10: create_trend_chart draws a projection only when the target is
\* non-null, the series has at least 2 points and the two most recent points
\* have different years; a null baseline does not prevent it: with those
\* three conditions and a latest year before the horizon it is drawn
\* whatever the baseline.
C10_ProjectionCondition ==
    (pc = "done" /\ call.fn = "create_trend_chart" /\ ret # <<>>)
        => /\ ret[1].projection # <<>>
                  => /\ call.args[4].k = "num"
                     /\ Cardinality(KeyRows) >= 2
                     /\ LatestYearIsAlone
           /\ (/\ call.args[4].k = "num"
               /\ Cardinality(KeyRows) >= 2
               /\ LatestYearIsAlone
               /\ \A i \in KeyRows : performance[i].year < HorizonYear)
                  => ret[1].projection # <<>>

\* a projection drawn with a null baseline
C10_Witness ==
    /\ pc = "done" /\ call.fn = "create_trend_chart" /\ ret # <<>>
    /\ call.args[3] = NaN
    /\ ret[1].baseline_line = <<>>
    /\ ret[1].projection # <<>>

-----------------------------------------------------------------------------
(* Specification of the projection: one call of create_trend_chart on a series
   of one key that spans five years up to the horizon *)

ChartYears == (HorizonYear - 4)..HorizonYear
ChartValues == {Num(10), Num(15), Num(20)}

ChartDatasets ==
    UNION {[1..n -> [initiative_id : {"I1"}, metric : {"Equity Gap"},
                     year : ChartYears, actual_value : ChartValues]] :
               n \in 0..MaxRows}

InitChart ==
    /\ expectations = NoExpectations
    /\ performance \in ChartDatasets
    /\ evidence = NoEvidence
    /\ loaded = AllLoaded
    /\ summary = NoSummary
    /\ impact_metrics = NoImpactMetrics
    /\ add_metric_calls = 0
    /\ pc = "call"
    /\ call \in [fn : {"create_trend_chart"},
                 args : {"I1"} \X {"Equity Gap"} \X ChartBaselines \X ChartTargets
                        \X BOOLEAN]
    /\ ret = <<>>

NextChart == CreateTrendChart

SpecChart == InitChart /\ [][NextChart]_vars

-----------------------------------------------------------------------------
(* Properties of the projection, checked under SpecChart *)

ChartReturned == pc = "done" /\ call.fn = "create_trend_chart" /\ ret # <<>>

\* the greatest year of the rows idx of the dataset
GreatestYear(idx) ==
    CHOOSE y \in {performance[i].year : i \in idx} :
        \A i \in idx : performance[i].year <= y

\* p is the line through (latest_year, latest_value) with the slope of
\* (prev_year, prev_value) -> (latest_year, latest_value), one point a year
\* from latest_year to the horizon; the values are integers, the slope is
\* stated without division
IsProjectionOf(p, latest_year, latest_value, prev_year, prev_value) ==
    /\ Len(p) = HorizonYear - latest_year + 1
    /\ p[1] = <<latest_year, Num(latest_value)>>
    /\ \A j \in 2..Len(p) :
           /\ p[j][1] = latest_year + j - 1
           /\ IsNum(p[j][2])
           /\ p[j][2].n * (latest_year - prev_year) =
                  p[j][2].d * (latest_value * (latest_year - prev_year)
                               + (latest_value - prev_value) * (j - 1))

\* C11: a projection is the anchor (latest_year, latest_value) followed by
\* (Y, latest_value + slope * (Y - latest_year)) for every year Y from
\* latest_year + 1 to the horizon, in increasing order, with slope =
\* (latest_value - prev_value) / (latest_year - prev_year); the series
\* [(2027, 10), (2028, 20)] gives [(2028, 20), (2029, 30), (2030, 40)].
C11_ProjectionPoints ==
    (ChartReturned /\ ret[1].projection # <<>>)
        => /\ \E l \in KeyRows : \E q \in KeyRows \ {l} :
                  /\ performance[l].year = GreatestYear(KeyRows)
                  /\ performance[q].year = GreatestYear(KeyRows \ {l})
                  /\ IsProjectionOf(ret[1].projection,
                                    performance[l].year, performance[l].actual_value.n,
                                    performance[q].year, performance[q].actual_value.n)
           /\ (/\ Len(performance) = 2
               /\ performance[1].year = HorizonYear - 3
               /\ performance[1].actual_value = Num(10)
               /\ performance[2].year = HorizonYear - 2
               /\ performance[2].actual_value = Num(20))
                  => ret[1].projection = << <<HorizonYear - 2, Num(20)>>,
                                            <<HorizonYear - 1, Num(30)>>,
                                            <<HorizonYear, Num(40)>> >>

\* the series [(2027, 10), (2028, 20)] and its three projection points
C11_Witness ==
    /\ ChartReturned
    /\ Len(performance) = 2
    /\ performance[1].year = HorizonYear - 3 /\ performance[1].actual_value = Num(10)
    /\ performance[2].year = HorizonYear - 2 /\ performance[2].actual_value = Num(20)
    /\ Len(ret[1].projection) = 3
    /\ ret[1].projection[3] = <<HorizonYear, Num(40)>>

-----------------------------------------------------------------------------
(* Specification of the evidence grader: one call of get_evidence_grade on any
   loaded evidence dataset, with or without a Metric column.  The confidence
   scores are whole numbers, in and out of the nominal range 1..3. *)

ConfidenceScores == {Num(c) : c \in 0..4}

EvidenceDatasets ==
    UNION {[has_metric : {TRUE},
            rows : [1..n -> [initiative_id : Initiatives, metric : Metrics,
                             confidence_score : ConfidenceScores]]] :
               n \in 0..MaxRows}
    \cup
    UNION {[has_metric : {FALSE},
            rows : [1..n -> [initiative_id : Initiatives, metric : {NoMetric},
                             confidence_score : ConfidenceScores]]] :
               n \in 0..MaxRows}

InitEvidence ==
    /\ expectations = NoExpectations
    /\ performance = <<>>
    /\ evidence \in EvidenceDatasets
    /\ loaded = AllLoaded
    /\ summary = NoSummary
    /\ impact_metrics = NoImpactMetrics
    /\ add_metric_calls = 0
    /\ pc = "call"
    /\ call \in [fn : {"get_evidence_grade"},
                 args : {"I1"} \X (Metrics \cup {NoMetric})]
    /\ ret = <<>>

GetEvidenceGrade ==
    /\ pc = "call"
    /\ call.fn = "get_evidence_grade"
    /\ ret' = get_evidence_grade(evidence, call.args[1], call.args[2])
    /\ pc' = "done"
    /\ UNCHANGED <<datasets, call, summary, tracker>>

NextEvidence == GetEvidenceGrade

SpecEvidence == InitEvidence /\ [][NextEvidence]_vars

-----------------------------------------------------------------------------
(* Properties of get_evidence_grade, checked under SpecEvidence *)

GradeReturned == pc = "done" /\ call.fn = "get_evidence_grade"

\* the records the grade is about: those of the initiative and, when the
\* dataset has a Metric column and a metric is given, of that metric
MatchedEvidence ==
    {i \in DOMAIN evidence.rows :
        /\ evidence.rows[i].initiative_id = call.args[1]
        /\ (evidence.has_metric /\ call.args[2] # NoMetric)
               => evidence.rows[i].metric = call.args[2]}

RECURSIVE ScoreTotal(_)
ScoreTotal(idx) ==
    IF idx = {} THEN 0
    ELSE LET i == CHOOSE j \in idx : TRUE
         IN evidence.rows[i].confidence_score.n + ScoreTotal(idx \ {i})

\* C12: the grade is determined by the arithmetic mean of the confidence
\* scores of the matched records, with inclusive lower bounds 2.5 (A),
\* 2.0 (B), 1.5 (C), else D; scores outside 1..3 are averaged like the
\* others; the returned avg_confidence is that mean.
C12_GradeOfMean ==
    (GradeReturned /\ MatchedEvidence # {})
        => LET total == ScoreTotal(MatchedEvidence)
               count == Cardinality(MatchedEvidence)
           IN /\ IsNum(ret.avg_confidence)
              /\ ret.avg_confidence.n * count = total * ret.avg_confidence.d
              /\ ret.grade = IF 2 * total >= 5 * count THEN "A"
                             ELSE IF total >= 2 * count THEN "B"
                             ELSE IF 2 * total >= 3 * count THEN "C"
                             ELSE "D"

\* an average of exactly 2.5 is graded A
C12_Witness ==
    /\ GradeReturned
    /\ Len(ret.filtered) = 2
    /\ ret.avg_confidence = Frac(5, 2)
    /\ ret.grade = "A"

\* the rows idx of the evidence dataset, in dataset order
RECURSIVE EvidenceRowsOf(_, _)
EvidenceRowsOf(idx, n) ==
    IF n = 0 THEN <<>>
    ELSE IF n \in idx THEN Append(EvidenceRowsOf(idx, n - 1), evidence.rows[n])
    ELSE EvidenceRowsOf(idx, n - 1)

\* C13: the graded records are exactly those of the initiative, restricted
\* to the metric only when the dataset has a Metric column and a metric is
\* given; an empty match gives (None, None, None); without a Metric column
\* every metric of the initiative gets the same grade, records and average.
C13_EvidenceFilter ==
    GradeReturned
        => /\ MatchedEvidence = {} => ret = NoGrade
           /\ MatchedEvidence # {} =>
                  ret.filtered = EvidenceRowsOf(MatchedEvidence, Len(evidence.rows))
           /\ ~evidence.has_metric =>
                  \A m \in Metrics \cup {NoMetric} :
                      get_evidence_grade(evidence, call.args[1], m) = ret

\* a dataset with a Metric column that holds a record of the initiative for
\* another metric: the record is left out
C13_Witness ==
    /\ GradeReturned
    /\ evidence.has_metric /\ call.args[2] = "Equity Gap"
    /\ Len(evidence.rows) = 2
    /\ evidence.rows[1].initiative_id = "I1" /\ evidence.rows[1].metric = "Completion Rate"
    /\ evidence.rows[2].initiative_id = "I1" /\ evidence.rows[2].metric = "Equity Gap"
    /\ ret.filtered = <<evidence.rows[2]>>

-----------------------------------------------------------------------------
(* Specification of the name classifiers: one call of is_lower_better_metric
   or format_value on a name of up to MaxWords words joined by spaces *)

Words ==
    {<<"C", "o", "s", "t">>,
     <<"G", "A", "P">>,
     <<"R", "e", "t", "e", "n", "t", "i", "o", "n">>,
     <<"R", "a", "t", "i", "o">>,
     <<"D", "e", "b", "t">>,
     <<"T", "i", "m", "e">>,
     <<"T", "o">>,
     <<"w", "a", "i", "t">>,
     <<"D", "u", "r", "a", "t", "i", "o", "n">>,
     <<"S", "c", "o", "r", "e">>,
     <<"R", "a", "t", "e">>,
     <<"%">>,
     <<"S", "a", "l", "a", "r", "y">>,
     <<"P", "R", "I", "C", "E">>,
     <<"R", "e", "v", "e", "n", "u", "e">>,
     <<"B", "u", "d", "g", "e", "t">>,
     <<"P", "e", "r", "c", "e", "n", "t">>}

RECURSIVE JoinWords(_)
JoinWords(ws) ==
    IF ws = <<>> THEN <<>>
    ELSE IF Len(ws) = 1 THEN ws[1]
    ELSE ws[1] \o <<" ">> \o JoinWords(Tail(ws))

MetricNames == {JoinWords(ws) : ws \in UNION {[1..n -> Words] : n \in 0..MaxWords}}

FormatValues == {None, NaN, Num(1234), Frac(5, 2)}

InitNames ==
    /\ expectations = NoExpectations
    /\ performance = <<>>
    /\ evidence = NoEvidence
    /\ loaded = AllLoaded
    /\ summary = NoSummary
    /\ impact_metrics = NoImpactMetrics
    /\ add_metric_calls = 0
    /\ pc = "call"
    /\ call \in [fn : {"is_lower_better_metric"}, args : {<<m>> : m \in MetricNames}]
                \cup [fn : {"format_value"}, args : FormatValues \X MetricNames]
    /\ ret = <<>>

IsLowerBetterMetric ==
    /\ pc = "call"
    /\ call.fn = "is_lower_better_metric"
    /\ ret' = is_lower_better_metric(call.args[1])
    /\ pc' = "done"
    /\ UNCHANGED <<datasets, call, summary, tracker>>

FormatValue ==
    /\ pc = "call"
    /\ call.fn = "format_value"
    /\ ret' = format_value(call.args[1], call.args[2])
    /\ pc' = "done"
    /\ UNCHANGED <<datasets, call, summary, tracker>>

NextNames == IsLowerBetterMetric \/ FormatValue

SpecNames == InitNames /\ [][NextNames]_vars

-----------------------------------------------------------------------------
(* Properties of the name classifiers, checked under SpecNames *)

\* k occurs in s as a run of consecutive characters
HasInfix(s, k) == \E i \in 1..Len(s) : \E j \in i..Len(s) : SubSeq(s, i, j) = k

\* str.upper() on one character
UpperChar(c) ==
    IF \E i \in 1..Len(LowerLetters) : LowerLetters[i] = c
        THEN UpperLetters[CHOOSE i \in 1..Len(LowerLetters) : LowerLetters[i] = c]
    ELSE c

\* the name with the case of every letter changed
SwapCase(s) == [i \in 1..Len(s) |-> IF LowerChar(s[i]) = s[i] THEN UpperChar(s[i])
                                    ELSE LowerChar(s[i])]

RetentionRatio == <<"R", "e", "t", "e", "n", "t", "i", "o", "n", " ", "R", "a", "t", "i", "o">>

\* C17: is_lower_better_metric is True exactly when the lower-cased name
\* contains one of gap, cost, ratio, debt, "time to", wait; the result does
\* not change with the case of the letters; "Retention Ratio" is lower-is-better.
C17_PolarityKeywords ==
    (pc = "done" /\ call.fn = "is_lower_better_metric")
        => LET name == call.args[1]
               lowered == [i \in 1..Len(name) |-> LowerChar(name[i])]
           IN /\ ret = \/ HasInfix(lowered, <<"g", "a", "p">>)
                       \/ HasInfix(lowered, <<"c", "o", "s", "t">>)
                       \/ HasInfix(lowered, <<"r", "a", "t", "i", "o">>)
                       \/ HasInfix(lowered, <<"d", "e", "b", "t">>)
                       \/ HasInfix(lowered, <<"t", "i", "m", "e", " ", "t", "o">>)
                       \/ HasInfix(lowered, <<"w", "a", "i", "t">>)
              /\ is_lower_better_metric(SwapCase(name)) = ret
              /\ is_lower_better_metric(lowered) = ret
              /\ name = RetentionRatio => ret = TRUE

C17_Witness ==
    /\ pc = "done" /\ call.fn = "is_lower_better_metric"
    /\ call.args[1] = RetentionRatio
    /\ ret = TRUE

CostRateScore == <<"C", "o", "s", "t", " ", "R", "a", "t", "e", " ", "S", "c", "o", "r", "e">>

\* the parts of the four formats: currency $1,234, percentage 12.3%, score 12.3
\* and count 1,234
FormatParts(r) == <<r.text, r.prefix, r.decimals, r.grouping, r.suffix>>

\* C18: format_value gives "N/A" for a null value whatever the name;
\* otherwise exactly one format, by case-insensitive substring match in the
\* order currency (cost, salary, price, revenue, budget), percentage (rate,
\* percent, %), score (score), count; "Cost Rate Score" is a currency.
C18_FormatPrecedence ==
    (pc = "done" /\ call.fn = "format_value")
        => LET value == call.args[1]
               name == call.args[2]
               lowered == [i \in 1..Len(name) |-> LowerChar(name[i])]
               currency == \/ HasInfix(lowered, <<"c", "o", "s", "t">>)
                           \/ HasInfix(lowered, <<"s", "a", "l", "a", "r", "y">>)
                           \/ HasInfix(lowered, <<"p", "r", "i", "c", "e">>)
                           \/ HasInfix(lowered, <<"r", "e", "v", "e", "n", "u", "e">>)
                           \/ HasInfix(lowered, <<"b", "u", "d", "g", "e", "t">>)
               percentage == \/ HasInfix(lowered, <<"r", "a", "t", "e">>)
                             \/ HasInfix(lowered, <<"p", "e", "r", "c", "e", "n", "t">>)
                             \/ HasInfix(lowered, <<"%">>)
               score == HasInfix(lowered, <<"s", "c", "o", "r", "e">>)
           IN /\ value.k \in {"none", "nan"} => ret = FormatNA
              /\ value.k = "num" =>
                     FormatParts(ret) =
                         IF currency THEN <<"", "$", 0, TRUE, "">>
                         ELSE IF percentage THEN <<"", "", 1, FALSE, "%">>
                         ELSE IF score THEN <<"", "", 1, FALSE, "">>
                         ELSE <<"", "", 0, TRUE, "">>
              /\ (value.k = "num" /\ name = CostRateScore) => ret.prefix = "$"

C18_Witness ==
    /\ pc = "done" /\ call.fn = "format_value"
    /\ call.args[1] = Num(1234) /\ call.args[2] = CostRateScore
    /\ ret.prefix = "$" /\ ret.number = Num(1234) /\ ret.suffix = ""

-----------------------------------------------------------------------------
(* Specification of the detailed view and the summary statistics of main:
   one run of either on expectations of up to MaxRows rows and a performance
   dataset with at most one observation per metric of initiative I1 *)

\* baseline and target of a row: no baseline, no range, a range
ExpectationValues == {<<NaN, Num(0)>>, <<Num(10), Num(10)>>, <<Num(10), Num(0)>>}

ExpectationRows ==
    {[initiative_id |-> "I1", metric |-> m, baseline |-> v[1], target_2030 |-> v[2]] :
         m \in Metrics, v \in ExpectationValues}
    \cup {[initiative_id |-> "I2", metric |-> "Completion Rate",
           baseline |-> Num(10), target_2030 |-> Num(0)]}

ExpectationsDatasets == UNION {[1..n -> ExpectationRows] : n \in 0..MaxRows}

SummaryActuals == {Num(1), Num(4), Num(9)}

SummaryObservations ==
    [initiative_id : {"I1"}, metric : Metrics, year : {HorizonYear},
     actual_value : SummaryActuals]

PerformanceDatasets ==
    {df \in UNION {[1..n -> SummaryObservations] : n \in 0..Cardinality(Metrics)} :
         \A j, k \in DOMAIN df : j # k => df[j].metric # df[k].metric}

\* the choices of the select boxes: an initiative of the dataset or "All",
\* and for the detailed view a metric of the filtered rows
SummaryCalls(expectations_df) ==
    LET initiatives == {expectations_df[i].initiative_id : i \in DOMAIN expectations_df}
    IN [fn : {"summary_statistics"},
        args : {<<s>> : s \in initiatives \cup {AllInitiatives}}]
       \cup UNION {{[fn |-> "detailed_view", args |-> <<s, m>>] :
                        m \in UniqueMetrics(FilterExpectations(expectations_df, s))} :
                   s \in initiatives}

InitSummary ==
    /\ expectations \in ExpectationsDatasets
    /\ performance \in PerformanceDatasets
    /\ evidence = NoEvidence
    /\ loaded = AllLoaded
    /\ summary = NoSummary
    /\ impact_metrics = NoImpactMetrics
    /\ add_metric_calls = 0
    /\ pc = "call"
    /\ call \in SummaryCalls(expectations)
    /\ ret = <<>>

DetailedView ==
    /\ pc = "call"
    /\ call.fn = "detailed_view"
    /\ ret' \in detailed_view(FilterExpectations(expectations, call.args[1]),
                              performance, evidence, call.args[2])
    /\ pc' = "done"
    /\ UNCHANGED <<datasets, call, summary, tracker>>

\* the four numbers shown under "Summary Statistics"
SummaryStatistics ==
    /\ pc = "call"
    /\ call.fn = "summary_statistics"
    /\ summary' \in summary_statistics(FilterExpectations(expectations, call.args[1]),
                                       performance)
    /\ ret' = IF summary'.exc # "none" THEN <<>>
              ELSE <<summary'.total_metrics, summary'.on_track_count,
                     summary'.at_risk_count, summary'.off_track_count>>
    /\ pc' = "done"
    /\ UNCHANGED <<datasets, call, tracker>>

NextSummary == DetailedView \/ SummaryStatistics

SpecSummary == InitSummary /\ [][NextSummary]_vars

-----------------------------------------------------------------------------
(* Properties of the summary statistics and the detailed view, checked under
   SpecSummary *)

SummaryDone == pc = "done" /\ call.fn = "summary_statistics"

\* the rows the pass went over
SummaryRows == FilterExpectations(expectations, call.args[1])

\* the observations of a row's initiative and metric
ObservationsOf(row) ==
    {j \in DOMAIN performance :
         /\ performance[j].initiative_id = row.initiative_id
         /\ performance[j].metric = row.metric}

\* progress and status of a row that has one observation
RowProgress(row) ==
    LET j == CHOOSE j \in ObservationsOf(row) : TRUE
    IN calculate_progress(row.baseline, performance[j].actual_value, row.target_2030,
                          is_lower_better_metric(MetricSpelling(row.metric)))

\* the rows with an observation, a progress that is not None and the status
RowsWithStatus(status) ==
    {i \in DOMAIN SummaryRows :
         /\ ObservationsOf(SummaryRows[i]) # {}
         /\ RowProgress(SummaryRows[i]).progress # None
         /\ RowProgress(SummaryRows[i]).status = status}

\* C14: the summary pass gives total = the number of filtered expectation
\* rows, and every row adds one to exactly the counter of its status when it
\* has an observation and a progress that is not None, and to no counter
\* otherwise: each counter is the number of such rows.
C14_SummaryBuckets ==
    SummaryDone =>
        /\ ret[1] = Len(SummaryRows)
        /\ ret[2] = Cardinality(RowsWithStatus("On Track"))
        /\ ret[3] = Cardinality(RowsWithStatus("At Risk"))
        /\ ret[4] = Cardinality(RowsWithStatus("Off Track"))

\* three rows, one without observation, one at progress 90, one at progress
\* 60: total 3, on track 1, at risk 1, off track 0
C14_Witness ==
    /\ SummaryDone
    /\ ret = <<3, 1, 1, 0>>
    /\ \E i \in DOMAIN SummaryRows : ObservationsOf(SummaryRows[i]) = {}
    /\ \E i \in RowsWithStatus("On Track") : RowProgress(SummaryRows[i]).progress = Num(90)
    /\ \E i \in RowsWithStatus("At Risk") : RowProgress(SummaryRows[i]).progress = Num(60)

\* C15: at the end of the summary pass the count of metrics with data
\* equals on_track + at_risk + off_track, whatever the rows and observations.
C15_WithDataIsBucketSum ==
    SummaryDone =>
        summary.metrics_with_data =
            summary.on_track_count + summary.at_risk_count + summary.off_track_count

\* the pairs (initiative, metric) of the rows the pass went over
SummaryPairs ==
    {<<SummaryRows[i].initiative_id, SummaryRows[i].metric>> : i \in DOMAIN SummaryRows}

\* the first row of the filtered expectations with the selected metric
FirstMatch ==
    LET rows == FilterExpectations(expectations, call.args[1])
        i == CHOOSE i \in DOMAIN rows :
                 /\ rows[i].metric = call.args[2]
                 /\ \A k \in 1..(i - 1) : rows[k].metric # call.args[2]
    IN rows[i]

\* C16: with several rows of the same (initiative, metric) the first one is
\* taken: the detailed view shows the first such row's baseline and target,
\* and the summary counts the pair once in total and at most once in the
\* status counters.
C16_DuplicatesFirstMatch ==
    /\ pc = "done" /\ call.fn = "detailed_view" => ret.metric_row = FirstMatch
    /\ SummaryDone =>
           /\ ret[1] = Cardinality(SummaryPairs)
           /\ ret[2] + ret[3] + ret[4] <= Cardinality(SummaryPairs)

-----------------------------------------------------------------------------
(* Specification of a run of main: the three files are loaded, then the
   detailed view or the summary statistics are computed *)

FileStates == {"missing", "unreadable"}

ExpectationsFiles ==
    [state : FileStates, content : {NoExpectations}]
    \cup [state : {"ok"}, content : {<<r>> : r \in ExpectationRows}]

PerformanceFiles ==
    [state : FileStates, content : {<<>>}]
    \cup [state : {"ok"}, content : {<<>>} \cup {<<o>> : o \in SummaryObservations}]

EvidenceFiles ==
    [state : FileStates \cup {"ok"}, content : {NoEvidence}]

UploadModes == {"Use Sample Data", "Upload CSV Files"}

InitLoad ==
    /\ expectations = NoExpectations
    /\ performance = <<>>
    /\ evidence = NoEvidence
    /\ loaded = NoneLoaded
    /\ summary = NoSummary
    /\ impact_metrics = NoImpactMetrics
    /\ add_metric_calls = 0
    /\ pc = "start"
    /\ call \in [fn : {"main"}, args : {<<m>> : m \in UploadModes},
                 files : [expectations : ExpectationsFiles,
                          performance : PerformanceFiles,
                          evidence : EvidenceFiles]]
    /\ ret = <<>>

\* main up to its filters: st.stop() when a file is missing or load_data
\* returned None, otherwise the user's choice of what to compute
LoadData ==
    /\ pc = "start"
    /\ call.fn = "main"
    /\ IF ~AllPresent(call.files)
           THEN /\ pc' = "stopped"
                /\ UNCHANGED <<datasets, call>>
       ELSE LET r == load_data(call.files.expectations, call.files.performance,
                               call.files.evidence)
            IN /\ expectations' = r.expectations
               /\ performance' = r.performance
               /\ evidence' = r.evidence
               /\ loaded' = r.loaded
               /\ IF AnyNone(r.loaded)
                      THEN /\ pc' = "stopped"
                           /\ UNCHANGED call
                  ELSE /\ pc' = "call"
                       /\ \E c \in SummaryCalls(r.expectations) :
                              call' = [fn |-> c.fn, args |-> c.args, files |-> call.files]
    /\ UNCHANGED <<ret, summary, tracker>>

NextLoad == LoadData \/ DetailedView \/ SummaryStatistics

SpecLoad == InitLoad /\ [][NextLoad]_vars

-----------------------------------------------------------------------------
(* Properties of loading, checked under SpecLoad *)

\* every file is there and pd.read_csv succeeds on it
AllReadable ==
    /\ call.files.expectations.state = "ok"
    /\ call.files.performance.state = "ok"
    /\ call.files.evidence.state = "ok"

\* C20: loading is all-or-nothing: once main has loaded, the three datasets
\* are all there when every file could be read, and none of them is when a
\* file is missing or a read failed; the detailed view and the summary
\* statistics are computed only with the three datasets loaded.
C20_LoadAllOrNothing ==
    /\ pc # "start" => loaded = IF AllReadable THEN AllLoaded ELSE NoneLoaded
    /\ pc \in {"call", "done"} => loaded = AllLoaded /\ AllReadable

\* the expectations file is read and the performance file makes pd.read_csv
\* raise: nothing is loaded and main has stopped
C20_Witness ==
    /\ pc = "stopped"
    /\ call.files.expectations.state = "ok"
    /\ call.files.performance.state = "unreadable"
    /\ call.files.evidence.state = "ok"
    /\ loaded = NoneLoaded
    /\ expectations = NoExpectations

-----------------------------------------------------------------------------
(* ImpactMetrics (src/src/impact_metrics.py).  The instance is the record
   [metrics, history]: metrics is the dict as a function from the names it
   holds to their values, history the list of entries [name, value,
   timestamp].  A name is a string, "" included. *)

\* an optional argument is <<>> for None and <<x>> for the value x
NoTimestamp == <<>>
NoName == <<>>

\* datetime values and timestamp.isoformat()
Datetimes == {[year |-> 2024, month |-> 1, day |-> 1], [year |-> 2024, month |-> 1, day |-> 2]}

isoformat(timestamp) ==
    CASE timestamp.day = 1 -> "2024-01-01T00:00:00"
      [] timestamp.day = 2 -> "2024-01-02T00:00:00"

\* self.metrics[name] = value
DictSet(dict, name, value) ==
    [k \in DOMAIN dict \cup {name} |-> IF k = name THEN value ELSE dict[k]]

\* mutant: the current value of a name already tracked is kept
add_metric_KeepFirst(self, name, value, timestamp, now) ==
    LET metric_entry == [name |-> name, value |-> value,
                         timestamp |-> isoformat(IF timestamp = NoTimestamp THEN now
                                                 ELSE timestamp[1])]
    IN [self |-> [metrics |-> IF name \in DOMAIN self.metrics THEN self.metrics
                              ELSE DictSet(self.metrics, name, value),
                  history |-> Append(self.history, metric_entry)],
        ret |-> metric_entry]

\* mutant: the entry is inserted at the front of the history
add_metric_Prepend(self, name, value, timestamp, now) ==
    LET metric_entry == [name |-> name, value |-> value,
                         timestamp |-> isoformat(IF timestamp = NoTimestamp THEN now
                                                 ELSE timestamp[1])]
    IN [self |-> [metrics |-> DictSet(self.metrics, name, value),
                  history |-> <<metric_entry>> \o self.history],
        ret |-> metric_entry]

\* add_metric, now being what datetime.now() returns: the instance after the
\* call and the entry returned
add_metric(self, name, value, timestamp, now) ==
    LET metric_entry == [name |-> name, value |-> value,
                         timestamp |-> isoformat(IF timestamp = NoTimestamp THEN now
                                                 ELSE timestamp[1])]
    IN [self |-> [metrics |-> DictSet(self.metrics, name, value),
                  history |-> Append(self.history, metric_entry)],
        ret |-> metric_entry]

\* mutant: a name that is not tracked reads as 0
get_metric_ZeroDefault(self, name) ==
    IF name \in DOMAIN self.metrics THEN self.metrics[name] ELSE Num(0)

\* self.metrics.get(name)
get_metric(self, name) ==
    IF name \in DOMAIN self.metrics THEN self.metrics[name] ELSE None

\* the truth value of the argument name: None and "" are false
Truthy(name) == name # NoName /\ name[1] # ""

get_history(self, name) ==
    LET OfName(entry) == entry.name = name[1]
    IN IF Truthy(name) THEN SelectSeq(self.history, OfName)
       ELSE self.history

\* sum(values)
RECURSIVE SumValues(_)
SumValues(entries) ==
    IF entries = <<>> THEN Num(0)
    ELSE Add(Head(entries).value, SumValues(Tail(entries)))

calculate_average(self, name) ==
    LET history == get_history(self, <<name>>)
    IN IF history = <<>> THEN None
       ELSE Div(SumValues(history), Num(Len(history)))

\* export_data, write_ok telling whether open and json.dump succeed
export_data(self, write_ok) ==
    IF write_ok THEN [self |-> self, exc |-> "none", ret |-> TRUE]
    ELSE [self |-> self, exc |-> "none", ret |-> FALSE]

-----------------------------------------------------------------------------
(* Specification of the tracker: any sequence of calls on one instance, with
   at most MaxCalls calls of add_metric *)

MetricNameStrings == {"users", "revenue", ""}
MetricValues == {Num(100), Num(200)}

InitTracker ==
    /\ expectations = NoExpectations
    /\ performance = <<>>
    /\ evidence = NoEvidence
    /\ loaded = AllLoaded
    /\ summary = NoSummary
    /\ impact_metrics = NoImpactMetrics
    /\ add_metric_calls = 0
    /\ pc = "done"
    /\ call = [fn |-> "__init__", args |-> <<>>]
    /\ ret = <<>>

AddMetric ==
    /\ add_metric_calls < MaxCalls
    /\ \E name \in MetricNameStrings, value \in MetricValues,
          timestamp \in {NoTimestamp} \cup {<<d>> : d \in Datetimes}, now \in Datetimes :
           LET r == add_metric(impact_metrics, name, value, timestamp, now)
           IN /\ call' = [fn |-> "add_metric", args |-> <<name, value, timestamp>>]
              /\ impact_metrics' = r.self
              /\ ret' = r.ret
    /\ add_metric_calls' = add_metric_calls + 1
    /\ UNCHANGED <<datasets, pc, summary>>

GetMetric ==
    /\ \E name \in MetricNameStrings :
           /\ call' = [fn |-> "get_metric", args |-> <<name>>]
           /\ ret' = get_metric(impact_metrics, name)
    /\ UNCHANGED <<datasets, pc, summary, tracker>>

GetHistory ==
    /\ \E name \in {NoName} \cup {<<n>> : n \in MetricNameStrings} :
           /\ call' = [fn |-> "get_history", args |-> <<name>>]
           /\ ret' = get_history(impact_metrics, name)
    /\ UNCHANGED <<datasets, pc, summary, tracker>>

CalculateAverage ==
    /\ \E name \in MetricNameStrings :
           /\ call' = [fn |-> "calculate_average", args |-> <<name>>]
           /\ ret' = calculate_average(impact_metrics, name)
    /\ UNCHANGED <<datasets, pc, summary, tracker>>

ExportData ==
    /\ \E write_ok \in BOOLEAN :
           LET r == export_data(impact_metrics, write_ok)
           IN /\ call' = [fn |-> "export_data", args |-> <<write_ok>>]
              /\ impact_metrics' = r.self
              /\ ret' = [exc |-> r.exc, ret |-> r.ret]
    /\ UNCHANGED <<datasets, pc, summary, add_metric_calls>>

NextTracker == AddMetric \/ GetMetric \/ GetHistory \/ CalculateAverage \/ ExportData

SpecTracker == InitTracker /\ [][NextTracker]_vars

-----------------------------------------------------------------------------
(* Properties of the tracker, checked under SpecTracker *)

\* the positions of the history entries added under a name
EntriesOf(name) ==
    {i \in DOMAIN impact_metrics.history : impact_metrics.history[i].name = name}

\* the value of the most recent entry added under a name, None without one
LastValue(name) ==
    IF EntriesOf(name) = {} THEN None
    ELSE impact_metrics.history[CHOOSE i \in EntriesOf(name) :
                                    \A k \in EntriesOf(name) : k <= i].value

\* C21: add_metric(name, value) returns an entry with that name and value and
\* get_metric(name) then gives that value; get_metric(name) returns the value
\* of the most recent add_metric of the name, None for a name never added.
C21_AddThenGet ==
    /\ call.fn = "add_metric" =>
           /\ ret.name = call.args[1]
           /\ ret.value = call.args[2]
           /\ get_metric(impact_metrics, call.args[1]) = call.args[2]
    /\ call.fn = "get_metric" => ret = LastValue(call.args[1])

\* get_metric after two add_metric of the name with different values
C21_Witness ==
    /\ call.fn = "get_metric"
    /\ Cardinality(EntriesOf(call.args[1])) = 2
    /\ \E i \in EntriesOf(call.args[1]) : impact_metrics.history[i].value # ret
    /\ ret = LastValue(call.args[1])
    /\ \E n \in MetricNameStrings : EntriesOf(n) = {}

\* the entries added under a name, in the order added
HistoryOf(name) ==
    LET OfName(entry) == entry.name = name
    IN SelectSeq(impact_metrics.history, OfName)

\* C22: get_history(name) returns exactly the entries added under the name,
\* in the order added, for every string name; get_history() returns all
\* entries in the order added.
C22_HistoryOfName ==
    call.fn = "get_history" =>
        ret = IF call.args[1] = NoName THEN impact_metrics.history
              ELSE HistoryOf(call.args[1][1])

\* C23: calculate_average(name) is the mean of the values of all add_metric
\* calls of the name, and None when there was none, for every string name.
C23_AverageOfName ==
    call.fn = "calculate_average" =>
        ret = IF HistoryOf(call.args[1]) = <<>> THEN None
              ELSE Div(SumValues(HistoryOf(call.args[1])),
                       Num(Len(HistoryOf(call.args[1]))))

\* C26: in every state of an instance the keys of metrics are the names
\* occurring in history, metrics[name] is the value of the last history entry
\* of the name, and history is as long as the number of add_metric calls.
C26_MetricsMirrorHistory ==
    /\ DOMAIN impact_metrics.metrics =
           {impact_metrics.history[i].name : i \in DOMAIN impact_metrics.history}
    /\ \A name \in DOMAIN impact_metrics.metrics :
           impact_metrics.metrics[name] = LastValue(name)
    /\ Len(impact_metrics.history) = add_metric_calls

\* two names tracked, one of them added twice with different values
C26_Witness ==
    /\ add_metric_calls = 3
    /\ Cardinality(DOMAIN impact_metrics.metrics) = 2
    /\ \E name \in DOMAIN impact_metrics.metrics :
           /\ Cardinality(EntriesOf(name)) = 2
           /\ \E i \in EntriesOf(name) :
                  impact_metrics.history[i].value # impact_metrics.metrics[name]

\* the step is a call of add_metric
AddMetricStep == add_metric_calls' # add_metric_calls

\* C27: history is append-only and only add_metric changes the instance: an
\* add_metric appends exactly one entry (the one it returns) and leaves the
\* earlier entries and the values of the other names as they were; get_metric,
\* get_history, calculate_average and export_data leave metrics and history
\* unchanged, and export_data returns False without raising when the write
\* fails.
C27_AppendOnly ==
    [][/\ AddMetricStep =>
              /\ call'.fn = "add_metric"
              /\ impact_metrics'.history = Append(impact_metrics.history, ret')
              /\ \A name \in DOMAIN impact_metrics.metrics \ {call'.args[1]} :
                     /\ name \in DOMAIN impact_metrics'.metrics
                     /\ impact_metrics'.metrics[name] = impact_metrics.metrics[name]
              /\ DOMAIN impact_metrics'.metrics \subseteq
                     DOMAIN impact_metrics.metrics \cup {call'.args[1]}
       /\ ~AddMetricStep =>
              /\ call'.fn \in {"get_metric", "get_history", "calculate_average",
                               "export_data"}
              /\ impact_metrics' = impact_metrics
       /\ (~AddMetricStep /\ call'.fn = "export_data" /\ ~call'.args[1]) =>
              ret' = [exc |-> "none", ret |-> FALSE]]_vars

\* export_data whose write failed, on an instance with entries of two names
C27_Witness ==
    /\ call.fn = "export_data"
    /\ ~call.args[1]
    /\ ret = [exc |-> "none", ret |-> FALSE]
    /\ Len(impact_metrics.history) = 3
    /\ Cardinality(DOMAIN impact_metrics.metrics) = 2

-----------------------------------------------------------------------------
(* Specification of the chart at the horizon: one call of create_trend_chart
   on a series of one key whose years lie around the horizon year *)

HorizonYears == (HorizonYear - 1)..(HorizonYear + 1)
HorizonValues == {Num(10), Num(20)}

HorizonDatasets ==
    UNION {[1..n -> [initiative_id : {"I1"}, metric : {"Equity Gap"},
                     year : HorizonYears, actual_value : HorizonValues]] :
               n \in 0..MaxRows}

InitHorizon ==
    /\ expectations = NoExpectations
    /\ performance \in HorizonDatasets
    /\ evidence = NoEvidence
    /\ loaded = AllLoaded
    /\ summary = NoSummary
    /\ impact_metrics = NoImpactMetrics
    /\ add_metric_calls = 0
    /\ pc = "call"
    /\ call \in [fn : {"create_trend_chart"},
                 args : {"I1"} \X {"Equity Gap"} \X ChartBaselines \X ChartTargets
                        \X BOOLEAN]
    /\ ret = <<>>

NextHorizon == CreateTrendChart

SpecHorizon == InitHorizon /\ [][NextHorizon]_vars

\* C24: when the latest observed year is >= the horizon year no projection
\* trace is added, not even the anchor point alone, whatever the target and
\* the other points of the series.
C24_NoProjectionPastHorizon ==
    (ChartReturned /\ GreatestYear(KeyRows) >= HorizonYear)
        => ret[1].projection = <<>>

\* a target and two points of distinct years, the latest in the horizon year
C24_Witness ==
    /\ ChartReturned
    /\ IsNum(call.args[4])
    /\ Len(performance) = 2
    /\ performance[1].year = HorizonYear - 1
    /\ performance[2].year = HorizonYear
    /\ performance[1].actual_value # performance[2].actual_value
    /\ ret[1].projection = <<>>

-----------------------------------------------------------------------------
(* The two polarities of calculate_progress, checked under SpecProgress *)

\* the result of the same call with the other value of lower_is_better
OtherPolarity ==
    calculate_progress(ArgBaseline, ArgActual, ArgTarget, ~ArgLowerIsBetter)

\* the result of the call with lower_is_better=True
LowerIsBetterResult == IF ArgLowerIsBetter THEN ret ELSE OtherPolarity

-----------------------------------------------------------------------------
(* The latest observation of the chart and of get_latest_performance, checked
   under SpecSeries *)

\* no two observations of the call's initiative and metric have the same year
NoSharedYear ==
    \A i, j \in KeyRows : i # j => performance[i].year # performance[j].year

\* the chart of the call has a projection trace
ProjectionDrawn ==
    /\ pc = "done"
    /\ call.fn = "create_trend_chart"
    /\ ret # <<>>
    /\ ret[1].projection # <<>>

\* C28: when no two observations of a series have the same year, the first
\* point of the projection of create_trend_chart carries the actual value of
\* the observation get_latest_performance returns for the same keys.
C28_AnchorIsLatest ==
    (ProjectionDrawn /\ NoSharedYear)
        => \A latest_perf \in get_latest_performance(performance, call.args[1],
                                                     call.args[2]) :
               /\ latest_perf # <<>>
               /\ ret[1].projection[1] =
                      <<latest_perf[1].year, latest_perf[1].actual_value>>

\* a projection on a series of two years whose values differ
C28_Witness ==
    /\ ProjectionDrawn
    /\ NoSharedYear
    /\ Cardinality(KeyRows) >= 2
    /\ \E i, j \in KeyRows :
           /\ performance[i].year < performance[j].year
           /\ performance[i].actual_value # performance[j].actual_value
           /\ ret[1].projection[1] = <<performance[j].year, performance[j].actual_value>>

====
